---- MODULE Spec2Model ----
(***************************************************************************)
(* Model of app.py: the Streamlit profit/loss tool.  The state is the two  *)
(* uploaded files, the five filter widgets and the result of the last      *)
(* click on "Process" (process_spend_and_revenue, with the intermediate    *)
(* data frames it builds).  Strings are sequences of one-character         *)
(* strings so that the regular expression, the date parser and the         *)
(* campaign-id parser are computed character by character.                 *)
(***************************************************************************)
EXTENDS Integers, Sequences, FiniteSets, TLC

VARIABLES spend_file, revenue_file, start_date, end_date, campaign_ids,
          profit_loss_min, profit_loss_max,
          status, revenue_agg, merged_data, filtered_data, output

vars == <<spend_file, revenue_file, start_date, end_date, campaign_ids,
          profit_loss_min, profit_loss_max,
          status, revenue_agg, merged_data, filtered_data, output>>

----------------------------------------------------------------------------
(* Characters and strings *)

Digits == {"0", "1", "2", "3", "4", "5", "6", "7", "8", "9"}

\* ordinal of a character, as Python compares str values
CharCode(c) ==
    CASE c = " " -> 32 [] c = "(" -> 40 [] c = ")" -> 41 [] c = "," -> 44
      [] c = "/" -> 47
      [] c = "0" -> 48 [] c = "1" -> 49 [] c = "2" -> 50 [] c = "3" -> 51
      [] c = "4" -> 52 [] c = "5" -> 53 [] c = "6" -> 54 [] c = "7" -> 55
      [] c = "8" -> 56 [] c = "9" -> 57
      [] c = "A" -> 65 [] c = "B" -> 66 [] c = "C" -> 67 [] c = "x" -> 120

DigitVal(c) == CharCode(c) - 48

\* str.isdigit(): non-empty and every character a digit
IsDigitStr(s) == Len(s) > 0 /\ \A i \in 1..Len(s) : s[i] \in Digits

\* int() of a string of digits
RECURSIVE ToInt(_)
ToInt(s) ==
    IF s = <<>> THEN 0
    ELSE ToInt(SubSeq(s, 1, Len(s) - 1)) * 10 + DigitVal(s[Len(s)])

\* str < str : lexicographic on character ordinals, a proper prefix is smaller
RECURSIVE StrLess(_, _)
StrLess(a, b) ==
    IF b = <<>> THEN FALSE
    ELSE IF a = <<>> THEN TRUE
    ELSE IF CharCode(a[1]) # CharCode(b[1]) THEN CharCode(a[1]) < CharCode(b[1])
    ELSE StrLess(Tail(a), Tail(b))

\* str.split(sep): the pieces between separators, empty pieces kept
RECURSIVE Split(_, _)
Split(s, sep) ==
    IF \A i \in 1..Len(s) : s[i] # sep THEN <<s>>
    ELSE LET i == CHOOSE k \in 1..Len(s) :
                      s[k] = sep /\ \A j \in 1..(k - 1) : s[j] # sep
         IN  <<SubSeq(s, 1, i - 1)>> \o Split(SubSeq(s, i + 1, Len(s)), sep)

\* str.strip(): leading and trailing blanks removed
RECURSIVE Strip(_)
Strip(s) ==
    IF s = <<>> THEN s
    ELSE IF s[1] = " " THEN Strip(Tail(s))
    ELSE IF s[Len(s)] = " " THEN Strip(SubSeq(s, 1, Len(s) - 1))
    ELSE s

----------------------------------------------------------------------------
(* Floating point values of the data frames: a rational, NaN or +/-inf *)

RECURSIVE Gcd(_, _)
Gcd(a, b) == IF b = 0 THEN a ELSE Gcd(b, a % b)

Abs(x) == IF x < 0 THEN -x ELSE x

Num(x) == [k |-> "num", n |-> x, d |-> 1]
NaN == [k |-> "nan", n |-> 0, d |-> 1]
PosInf == [k |-> "inf", n |-> 1, d |-> 1]
NegInf == [k |-> "inf", n |-> -1, d |-> 1]

IsFinite(f) == f.k = "num"

\* Series / Series on float64: x/0 is +/-inf, 0/0 and anything with NaN is NaN
FDiv(a, b) ==
    IF a.k = "nan" \/ b.k = "nan" THEN NaN
    ELSE IF b.n = 0
         THEN IF a.n = 0 THEN NaN ELSE IF a.n > 0 THEN PosInf ELSE NegInf
    ELSE LET g == Gcd(Abs(a.n), Abs(b.n))
         IN  [k |-> "num", n |-> a.n \div g, d |-> b.n \div g]

\* Series - Series : NaN propagates
FSub(a, b) ==
    IF a.k = "nan" \/ b.k = "nan" THEN NaN ELSE Num(a.n - b.n)

\* comparisons of a float column with a number: False on NaN
FGe(a, x) == a.k = "num" /\ a.n >= x * a.d
FLe(a, x) == a.k = "num" /\ a.n <= x * a.d

----------------------------------------------------------------------------
(* pandas helpers *)

\* pd.to_datetime of a month/day/year string ("1/5/2024"): the Timestamp,
\* kept as the number yyyymmdd (midnight), so that Timestamps compare as dates
ToDatetime(s) ==
    LET parts == Split(s, "/")
    IN  ToInt(parts[3]) * 10000 + ToInt(parts[1]) * 100 + ToInt(parts[2])

\* pd.to_datetime of a datetime.date <<year, month, day>>
DateToDatetime(dt) == dt[1] * 10000 + dt[2] * 100 + dt[3]

\* first position >= i of s that does not hold a digit
RECURSIVE DigitRunEnd(_, _)
DigitRunEnd(s, i) ==
    IF i <= Len(s) /\ s[i] \in Digits THEN DigitRunEnd(s, i + 1) ELSE i

\* the pattern \((\d+)\) matches at position i
MatchesAt(s, i) ==
    /\ s[i] = "("
    /\ LET e == DigitRunEnd(s, i + 1)
       IN  e > i + 1 /\ e <= Len(s) /\ s[e] = ")"

\* Series.str.extract(r'\((\d+)\)'): the group of the leftmost match, or NaN
StrExtract(s) ==
    LET hits == {i \in 1..Len(s) : MatchesAt(s, i)}
    IN  IF hits = {} THEN [isna |-> TRUE, group |-> <<>>]
        ELSE LET i == CHOOSE h \in hits : \A g \in hits : h <= g
             IN  [isna |-> FALSE,
                  group |-> SubSeq(s, i + 1, DigitRunEnd(s, i + 1) - 1)]

\* sum of a column over the rows of one group
RECURSIVE GroupSum(_, _, _)
GroupSum(rows, key, col) ==
    IF rows = <<>> THEN 0
    ELSE (IF <<rows[1].campid, rows[1].date>> = key THEN rows[1][col] ELSE 0)
         + GroupSum(Tail(rows), key, col)

\* the group keys of groupby(['campid', 'date']): the distinct pairs of the
\* raw column values
GroupKeys(rows) == {<<rows[i].campid, rows[i].date>> : i \in DOMAIN rows}

\* groupby sorts the groups by key: campid, then the date string
KeyLess(a, b) == a[1] < b[1] \/ (a[1] = b[1] /\ StrLess(a[2], b[2]))

RECURSIVE SortedKeys(_)
SortedKeys(S) ==
    IF S = {} THEN <<>>
    ELSE LET m == CHOOSE x \in S : \A y \in S \ {x} : KeyLess(x, y)
         IN  <<m>> \o SortedKeys(S \ {m})

\* lines 13-23: groupby(...).agg(sum), rename, then to_datetime on 'Date'
RevenueAgg(rows) ==
    LET keys == SortedKeys(GroupKeys(rows))
    IN  [i \in 1..Len(keys) |->
            [CampID      |-> keys[i][1],
             Date        |-> ToDatetime(keys[i][2]),
             TotalClicks |-> GroupSum(rows, keys[i], "clicks"),
             Revenue     |-> GroupSum(rows, keys[i], "estimated_earnings")]]

\* line 26: .astype(int) raises when the extracted column holds a NaN
AsTypeIntRaises(file) ==
    \E i \in DOMAIN file.rows : StrExtract(file.rows[i].AdSetName).isna

\* lines 30-33: 'Cost per result' renamed to 'CPR', else CPR = 0; no other
\* column name is looked at
CprOf(file, row) ==
    IF "Cost per result" \in file.columns THEN row.CostPerResult ELSE 0

\* lines 26-33: spends_df with 'Camp ID', 'Date' and 'CPR'
NormalizeSpend(file) ==
    [i \in DOMAIN file.rows |->
        [CampID      |-> ToInt(StrExtract(file.rows[i].AdSetName).group),
         AdSetName   |-> file.rows[i].AdSetName,
         Date        |-> ToDatetime(file.rows[i].Day),
         AmountSpent |-> file.rows[i].AmountSpent,
         CPR         |-> CprOf(file, file.rows[i])]]

\* the rows of the right frame whose key equals the left row's, in the right
\* frame's order
RECURSIVE Matches(_, _)
Matches(s, agg) ==
    IF agg = <<>> THEN <<>>
    ELSE (IF agg[1].CampID = s.CampID /\ agg[1].Date = s.Date
          THEN <<agg[1]>> ELSE <<>>) \o Matches(s, Tail(agg))

JoinRow(s, clicks, revenue) ==
    [CampID |-> s.CampID, AdSetName |-> s.AdSetName, Date |-> s.Date,
     AmountSpent |-> s.AmountSpent, CPR |-> s.CPR,
     TotalClicks |-> clicks, Revenue |-> revenue]

\* a left row without a match keeps NaN in the right frame's columns
UnmatchedRow(s) == JoinRow(s, NaN, NaN)

\* line 36: merge(how='left'): left order kept, one row per matching right row
RECURSIVE Merge(_, _)
Merge(spends, agg) ==
    IF spends = <<>> THEN <<>>
    ELSE LET m == Matches(spends[1], agg)
         IN  (IF m = <<>> THEN <<UnmatchedRow(spends[1])>>
              ELSE [j \in 1..Len(m) |->
                      JoinRow(spends[1], Num(m[j].TotalClicks), Num(m[j].Revenue))])
             \o Merge(Tail(spends), agg)

\* fillna(0) alone: the infinities of a division by zero stay
ReplaceInfFillna_FillnaOnly(f) == IF f.k = "nan" THEN Num(0) ELSE f

\* line 38: .replace([inf, -inf], 0).fillna(0)
ReplaceInfFillna(f) == IF f.k = "num" THEN f ELSE Num(0)

\* lines 37-39
DeriveRow(r) ==
    [CampID |-> r.CampID, AdSetName |-> r.AdSetName, Date |-> r.Date,
     AmountSpent |-> r.AmountSpent, CPR |-> r.CPR,
     TotalClicks |-> r.TotalClicks, Revenue |-> r.Revenue,
     RPC |-> ReplaceInfFillna(FDiv(r.Revenue, r.TotalClicks)),
     ProfitLoss |-> FSub(r.Revenue, Num(r.AmountSpent))]

Derive(rows) == [i \in DOMAIN rows |-> DeriveRow(rows[i])]

\* merged_data[mask]: the rows whose mask entry is True, order kept
RECURSIVE SelectRows(_, _)
SelectRows(rows, mask) ==
    IF rows = <<>> THEN <<>>
    ELSE (IF mask[1] THEN <<rows[1]>> ELSE <<>>)
         \o SelectRows(Tail(rows), Tail(mask))

\* Series.isin(list)
InList(x, l) == \E i \in DOMAIN l : l[i] = x

\* lines 42-43
FilterStart(rows, f) ==
    IF f.start_date.set
    THEN SelectRows(rows, [i \in DOMAIN rows |-> rows[i].Date >= f.start_date.v])
    ELSE rows

\* lines 44-45
FilterEnd(rows, f) ==
    IF f.end_date.set
    THEN SelectRows(rows, [i \in DOMAIN rows |-> rows[i].Date <= f.end_date.v])
    ELSE rows

\* lines 46-47: an empty list is falsy
FilterCampaigns(rows, f) ==
    IF f.campaign_ids # <<>>
    THEN SelectRows(rows, [i \in DOMAIN rows |-> InList(rows[i].CampID, f.campaign_ids)])
    ELSE rows

\* "if filters['profit_loss_min']:" - a minimum of 0 is falsy and filters nothing
FilterMin_Truthy(rows, f) ==
    IF f.profit_loss_min.set /\ f.profit_loss_min.v # 0
    THEN SelectRows(rows, [i \in DOMAIN rows |->
                              FGe(rows[i].ProfitLoss, f.profit_loss_min.v)])
    ELSE rows

\* lines 48-49: "is not None", so 0 is a bound
FilterMin(rows, f) ==
    IF f.profit_loss_min.set
    THEN SelectRows(rows, [i \in DOMAIN rows |->
                              FGe(rows[i].ProfitLoss, f.profit_loss_min.v)])
    ELSE rows

\* lines 50-51
FilterMax(rows, f) ==
    IF f.profit_loss_max.set
    THEN SelectRows(rows, [i \in DOMAIN rows |->
                              FLe(rows[i].ProfitLoss, f.profit_loss_max.v)])
    ELSE rows

\* lines 42-51 in order
ApplyFilters(rows, f) ==
    FilterMax(FilterMin(FilterCampaigns(FilterEnd(FilterStart(rows, f), f), f), f), f)

\* the sort key of line 54: Date, then Camp ID
RowLess(a, b) == a.Date < b.Date \/ (a.Date = b.Date /\ a.CampID < b.CampID)

\* r put behind every row that is not greater: equal keys keep their order
RECURSIVE InsertSorted(_, _)
InsertSorted(sorted, r) ==
    IF sorted = <<>> THEN <<r>>
    ELSE IF RowLess(r, sorted[1]) THEN <<r>> \o sorted
    ELSE <<sorted[1]>> \o InsertSorted(Tail(sorted), r)

\* sort_values without inplace=True: the sorted copy is thrown away
SortValues_NotInPlace(rows) == rows

\* line 54: sort_values(by=['Date', 'Camp ID']), a stable lexsort
RECURSIVE SortValues(_)
SortValues(rows) ==
    IF rows = <<>> THEN <<>>
    ELSE InsertSorted(SortValues(SubSeq(rows, 1, Len(rows) - 1)), rows[Len(rows)])

\* lines 57-58: the columns of the report, 'Total Clicks' left out
ReportRow(r) ==
    [CampID |-> r.CampID, AdSetName |-> r.AdSetName, Date |-> r.Date,
     AmountSpent |-> r.AmountSpent, Revenue |-> r.Revenue, CPR |-> r.CPR,
     RPC |-> r.RPC, ProfitLoss |-> r.ProfitLoss]

\* line 67
Headers == <<"Camp ID", "Campaign Name", "Date", "Spend", "Revenue", "CPR",
             "RPC", "Profit/Loss">>

\* the data cells alone, as if the header row were not written
ColumnCells_NoHeader(col, rows) == [i \in DOMAIN rows |-> col]

\* lines 71-85: the cells of one worksheet column: the header cell of row 1,
\* then one cell per data row
ColumnCells(col, rows) == <<Headers[col]>> \o [i \in DOMAIN rows |-> col]

\* line 89: max() of an empty sequence raises ValueError
AdjustWidthsRaises(rows) ==
    \E col \in DOMAIN Headers : ColumnCells(col, rows) = <<>>

\* lines 60-105: the worksheet that is saved
Workbook(rows) ==
    [header |-> Headers, rows |-> [i \in DOMAIN rows |-> ReportRow(rows[i])]]

----------------------------------------------------------------------------
(* Streamlit script, lines 107-141 *)

\* line 123: the comma separated pieces whose stripped text is all digits
RECURSIVE DigitPieces(_)
DigitPieces(pieces) ==
    IF pieces = <<>> THEN <<>>
    ELSE (IF IsDigitStr(Strip(pieces[1])) THEN <<ToInt(Strip(pieces[1]))>> ELSE <<>>)
         \o DigitPieces(Tail(pieces))

ParseCampaignIds(text) == DigitPieces(Split(text, ","))

\* line 126 / 127: pd.to_datetime(d) if d else None
FilterDate(d) ==
    IF d.set THEN [set |-> TRUE, v |-> DateToDatetime(d.v)]
    ELSE [set |-> FALSE, v |-> 0]

\* lines 125-131
BuildFilters(sd, ed, ids, pmin, pmax) ==
    [start_date      |-> FilterDate(sd),
     end_date        |-> FilterDate(ed),
     campaign_ids    |-> ParseCampaignIds(ids),
     profit_loss_min |-> pmin,
     profit_loss_max |-> pmax]

filters == BuildFilters(start_date, end_date, campaign_ids,
                        profit_loss_min, profit_loss_max)

\* process_spend_and_revenue, lines 8-105, as a value: the exception it
\* raises or "done", with the frames it built on the way
ProcessSpendAndRevenue(sf, rf, f) ==
    LET agg == RevenueAgg(rf.rows)
    IN  IF AsTypeIntRaises(sf)
        THEN [status |-> "ValueError", revenue_agg |-> agg, merged_data |-> <<>>,
              filtered_data |-> <<>>, output |-> [header |-> <<>>, rows |-> <<>>]]
        ELSE LET merged == Derive(Merge(NormalizeSpend(sf), agg))
                 kept   == ApplyFilters(merged, f)
                 sorted == SortValues(kept)
             IN  IF AdjustWidthsRaises(sorted)
                 THEN [status |-> "ValueError", revenue_agg |-> agg,
                       merged_data |-> merged, filtered_data |-> kept,
                       output |-> [header |-> <<>>, rows |-> <<>>]]
                 ELSE [status |-> "done", revenue_agg |-> agg,
                       merged_data |-> merged, filtered_data |-> kept,
                       output |-> Workbook(sorted)]

----------------------------------------------------------------------------
(* Input domains *)

\* most rows, set filter widgets and cost columns one session may hold
MaxInputSize == 3

AdSetNames == { <<"A", "(", "1", ")">>, <<"B", " ", "(", "1", ")">>,
                <<"C", "(", "2", ")">>, <<"x", "(", ")">> }

SpendDays == { <<"1", "/", "5", "/", "2", "0", "2", "4">>,
               <<"0", "1", "/", "0", "6", "/", "2", "0", "2", "4">> }

RevenueDates == { <<"1", "/", "5", "/", "2", "0", "2", "4">>,
                  <<"0", "1", "/", "0", "5", "/", "2", "0", "2", "4">> }

AmountsSpent == {3}
CostPerResultValues == {7}
LegacyCostValues == {9}
CampIds == {1, 2}
ClickCounts == {0, 2}
EarningsValues == {0, 3}

\* the cost-per-result columns a spend export may carry: the primary name
\* and a legacy alias
CostColumns == {"Cost per result", "Cost per results"}

SpendRows ==
    [AdSetName : AdSetNames, Day : SpendDays, AmountSpent : AmountsSpent,
     CostPerResult : CostPerResultValues, LegacyCost : LegacyCostValues]

RevenueRows ==
    [campid : CampIds, date : RevenueDates, clicks : ClickCounts,
     estimated_earnings : EarningsValues]

SeqsUpTo(D, n) == UNION {[1..k -> D] : k \in 0..n}

NoFile == [present |-> FALSE, columns |-> {}, rows |-> <<>>]
NoDate == [set |-> FALSE, v |-> <<0, 0, 0>>]
NoNumber == [set |-> FALSE, v |-> 0]

DateChoices == {NoDate, [set |-> TRUE, v |-> <<2024, 1, 6>>]}
EndDateChoices == {NoDate, [set |-> TRUE, v |-> <<2024, 1, 5>>]}
CampaignIdTexts == { <<>>, <<"x", ",", " ", "1">> }
NumberChoices == {NoNumber, [set |-> TRUE, v |-> 0]}

B2N(b) == IF b THEN 1 ELSE 0

WidgetSize(sd, ed, ids, pmin, pmax) ==
    B2N(sd.set) + B2N(ed.set) + B2N(ids # <<>>) + B2N(pmin.set) + B2N(pmax.set)

FileSize(file) == Len(file.rows) + Cardinality(file.columns \cap CostColumns)

InputSize ==
    FileSize(spend_file) + FileSize(revenue_file)
    + WidgetSize(start_date, end_date, campaign_ids, profit_loss_min, profit_loss_max)

NoResult ==
    [status |-> "idle", revenue_agg |-> <<>>, merged_data |-> <<>>,
     filtered_data |-> <<>>, output |-> [header |-> <<>>, rows |-> <<>>]]

SetResult(r) ==
    /\ status' = r.status
    /\ revenue_agg' = r.revenue_agg
    /\ merged_data' = r.merged_data
    /\ filtered_data' = r.filtered_data
    /\ output' = r.output

----------------------------------------------------------------------------
(* The state machine *)

Init ==
    /\ spend_file = NoFile
    /\ revenue_file = NoFile
    /\ start_date = NoDate
    /\ end_date = NoDate
    /\ campaign_ids = <<>>
    /\ profit_loss_min = NoNumber
    /\ profit_loss_max = NoNumber
    /\ status = NoResult.status
    /\ revenue_agg = NoResult.revenue_agg
    /\ merged_data = NoResult.merged_data
    /\ filtered_data = NoResult.filtered_data
    /\ output = NoResult.output

\* line 111: a spend workbook is uploaded
UploadSpend ==
    /\ ~spend_file.present
    /\ \E cols \in SUBSET CostColumns :
       \E rows \in SeqsUpTo(SpendRows, MaxInputSize - InputSize - Cardinality(cols)) :
            spend_file' = [present |-> TRUE, columns |-> cols, rows |-> rows]
    /\ SetResult(NoResult)
    /\ UNCHANGED <<revenue_file, start_date, end_date, campaign_ids,
                   profit_loss_min, profit_loss_max>>

\* line 112: a raw revenue CSV is uploaded
UploadRevenue ==
    /\ ~revenue_file.present
    /\ \E rows \in SeqsUpTo(RevenueRows, MaxInputSize - InputSize) :
            revenue_file' = [present |-> TRUE, columns |-> {}, rows |-> rows]
    /\ SetResult(NoResult)
    /\ UNCHANGED <<spend_file, start_date, end_date, campaign_ids,
                   profit_loss_min, profit_loss_max>>

\* lines 114-120: the widgets exist once both files are there; a change of a
\* widget reruns the script, which shows no result until "Process" is clicked
SetWidgets(sd, ed, ids, pmin, pmax) ==
    /\ spend_file.present /\ revenue_file.present
    /\ FileSize(spend_file) + FileSize(revenue_file)
         + WidgetSize(sd, ed, ids, pmin, pmax) <= MaxInputSize
    /\ start_date' = sd
    /\ end_date' = ed
    /\ campaign_ids' = ids
    /\ profit_loss_min' = pmin
    /\ profit_loss_max' = pmax
    /\ SetResult(NoResult)
    /\ UNCHANGED <<spend_file, revenue_file>>

SetStartDate ==
    \E d \in DateChoices \ {start_date} :
        SetWidgets(d, end_date, campaign_ids, profit_loss_min, profit_loss_max)

SetEndDate ==
    \E d \in EndDateChoices \ {end_date} :
        SetWidgets(start_date, d, campaign_ids, profit_loss_min, profit_loss_max)

SetCampaignIds ==
    \E t \in CampaignIdTexts \ {campaign_ids} :
        SetWidgets(start_date, end_date, t, profit_loss_min, profit_loss_max)

SetProfitLossMin ==
    \E x \in NumberChoices \ {profit_loss_min} :
        SetWidgets(start_date, end_date, campaign_ids, x, profit_loss_max)

SetProfitLossMax ==
    \E x \in NumberChoices \ {profit_loss_max} :
        SetWidgets(start_date, end_date, campaign_ids, profit_loss_min, x)

\* lines 133-134: the button calls process_spend_and_revenue
Process ==
    /\ spend_file.present /\ revenue_file.present
    /\ status = "idle"
    /\ SetResult(ProcessSpendAndRevenue(spend_file, revenue_file, filters))
    /\ UNCHANGED <<spend_file, revenue_file, start_date, end_date, campaign_ids,
                   profit_loss_min, profit_loss_max>>

Next ==
    \/ UploadSpend
    \/ UploadRevenue
    \/ SetStartDate
    \/ SetEndDate
    \/ SetCampaignIds
    \/ SetProfitLossMin
    \/ SetProfitLossMax
    \/ Process

Spec == Init /\ [][Next]_vars

----------------------------------------------------------------------------
(* Properties *)

Processed == status # "idle"
Done == status = "done"

Perms(n) == {p \in [1..n -> 1..n] : \A i, j \in 1..n : p[i] = p[j] => i = j}
Permute(seq, p) == [i \in DOMAIN seq |-> seq[p[i]]]

\* the campaign id and calendar date a raw revenue row denotes
RevenueKey(r) == <<r.campid, ToDatetime(r.date)>>

RECURSIVE SumWhere(_, _, _)
SumWhere(rows, key, col) ==
    IF rows = <<>> THEN 0
    ELSE (IF RevenueKey(rows[1]) = key THEN rows[1][col] ELSE 0)
         + SumWhere(Tail(rows), key, col)

HasRevenue(r) ==
    \E i \in DOMAIN revenue_agg :
        revenue_agg[i].CampID = r.CampID /\ revenue_agg[i].Date = r.Date

\* C1: join cardinality - after a completed run the merge holds exactly one
\* record per spend row, whatever the revenue rows are
C1_JoinCardinality ==
    Done => Len(merged_data) = Len(spend_file.rows)

\* C2: fill policy - a merged record whose (campaign id, date) has no
\* aggregated revenue row has revenue 0, total clicks 0, rpc 0 and
\* profit/loss equal to minus its spend
C2_FillPolicy ==
    Done => \A i \in DOMAIN merged_data :
               ~HasRevenue(merged_data[i]) =>
                   /\ merged_data[i].Revenue = Num(0)
                   /\ merged_data[i].TotalClicks = Num(0)
                   /\ merged_data[i].RPC = Num(0)
                   /\ merged_data[i].ProfitLoss = Num(-merged_data[i].AmountSpent)

\* C3: a spend row whose ad set name holds no parenthesized digits is left
\* out alone: the run completes and every other spend row is merged
C3_PerRecordRejection ==
    (Processed /\ AsTypeIntRaises(spend_file)) =>
        /\ Done
        /\ \A i \in DOMAIN spend_file.rows :
              ~StrExtract(spend_file.rows[i].AdSetName).isna =>
                  \E j \in DOMAIN merged_data :
                      merged_data[j].AdSetName = spend_file.rows[i].AdSetName
        /\ \A j \in DOMAIN merged_data :
              ~StrExtract(merged_data[j].AdSetName).isna

\* C4: every merged record has a finite rpc: revenue / total clicks when the
\* clicks are not zero, and exactly 0 when they are zero or the record has no
\* revenue
C4_RpcFinite ==
    Done => \A i \in DOMAIN merged_data :
               LET r == merged_data[i]
               IN  /\ IsFinite(r.RPC)
                   /\ (r.TotalClicks.k = "num" /\ r.TotalClicks.n # 0) =>
                          r.RPC.n * r.TotalClicks.n = r.Revenue.n * r.RPC.d
                   /\ (r.TotalClicks.k # "num" \/ r.TotalClicks.n = 0) =>
                          r.RPC = Num(0)
                   /\ \A j \in DOMAIN output.rows : IsFinite(output.rows[j].RPC)

C4_Witness ==
    /\ Done
    /\ \E i \in DOMAIN merged_data :
          /\ merged_data[i].TotalClicks = Num(0)
          /\ merged_data[i].Revenue.k = "num" /\ merged_data[i].Revenue.n > 0
          /\ merged_data[i].RPC = Num(0)

\* a merged record satisfies every predicate that is set
Satisfies(r) ==
    /\ start_date.set => r.Date >= DateToDatetime(start_date.v)
    /\ end_date.set => r.Date <= DateToDatetime(end_date.v)
    /\ ParseCampaignIds(campaign_ids) # <<>> =>
          InList(r.CampID, ParseCampaignIds(campaign_ids))
    /\ profit_loss_min.set => FGe(r.ProfitLoss, profit_loss_min.v)
    /\ profit_loss_max.set => FLe(r.ProfitLoss, profit_loss_max.v)

\* C5: the filter step keeps exactly the merged records that satisfy every
\* set predicate (bounds inclusive, a bound of 0 is set), and the report
\* holds exactly those records
C5_FilterSemantics ==
    Done =>
        /\ filtered_data =
              SelectRows(merged_data,
                         [i \in DOMAIN merged_data |-> Satisfies(merged_data[i])])
        /\ Len(output.rows) = Len(filtered_data)
        /\ \A i \in DOMAIN filtered_data :
              \E j \in DOMAIN output.rows : output.rows[j] = ReportRow(filtered_data[i])

C5_Witness ==
    /\ Done
    /\ profit_loss_min = [set |-> TRUE, v |-> 0]
    /\ \E i \in DOMAIN merged_data :
          /\ merged_data[i].ProfitLoss = Num(0)
          /\ \E j \in DOMAIN output.rows : output.rows[j] = ReportRow(merged_data[i])

\* C6: permuting the rows of the spend file or of the revenue file leaves
\* the report rows and their order unchanged
C6_OrderIndependence ==
    Done =>
        \A p \in Perms(Len(spend_file.rows)) :
        \A q \in Perms(Len(revenue_file.rows)) :
            ProcessSpendAndRevenue(
                [spend_file EXCEPT !.rows = Permute(spend_file.rows, p)],
                [revenue_file EXCEPT !.rows = Permute(revenue_file.rows, q)],
                filters).output = output

\* C7: the report rows are the filtered records, ordered by date and then
\* by campaign id; records with equal date and campaign id keep the order
\* the filters left them in
C7_OutputOrdering ==
    Done =>
        /\ \A i, j \in DOMAIN output.rows :
              i < j => ~RowLess(output.rows[j], output.rows[i])
        /\ \E p \in Perms(Len(filtered_data)) :
              /\ Len(output.rows) = Len(filtered_data)
              /\ \A i \in DOMAIN output.rows :
                    output.rows[i] = ReportRow(filtered_data[p[i]])
              /\ \A i, j \in DOMAIN output.rows :
                    (/\ i < j
                     /\ ~RowLess(output.rows[i], output.rows[j])) => p[i] < p[j]

C7_Witness ==
    /\ Done
    /\ end_date.set
    /\ filtered_data = merged_data
    /\ \E i, j \in DOMAIN filtered_data :
          i < j /\ RowLess(filtered_data[j], filtered_data[i])

\* C8: the aggregate holds exactly one row per distinct (campaign id,
\* calendar date) of the raw revenue rows, with the sums of clicks and of
\* earnings over the raw rows of that campaign and date
C8_RevenueAggregation ==
    Processed =>
        LET keys == {RevenueKey(revenue_file.rows[i]) : i \in DOMAIN revenue_file.rows}
        IN  /\ Len(revenue_agg) = Cardinality(keys)
            /\ \A k \in keys :
                  \E i \in DOMAIN revenue_agg :
                      /\ <<revenue_agg[i].CampID, revenue_agg[i].Date>> = k
                      /\ revenue_agg[i].TotalClicks =
                            SumWhere(revenue_file.rows, k, "clicks")
                      /\ revenue_agg[i].Revenue =
                            SumWhere(revenue_file.rows, k, "estimated_earnings")

\* the cost per result the priority list gives a spend row
ResolvedCpr(row) ==
    IF "Cost per result" \in spend_file.columns THEN row.CostPerResult
    ELSE IF "Cost per results" \in spend_file.columns THEN row.LegacyCost
    ELSE 0

\* C9: the CPR of a merged record is the primary cost-per-result field when
\* the spend file has it, else the legacy alias field when the file has
\* that, else 0
C9_CprResolution ==
    Done => \A i \in DOMAIN merged_data :
               \E j \in DOMAIN spend_file.rows :
                   /\ spend_file.rows[j].AdSetName = merged_data[i].AdSetName
                   /\ merged_data[i].CPR = ResolvedCpr(spend_file.rows[j])

\* C10: an empty result is a report with the header row and no data rows;
\* the only exception a run raises is the integer conversion of a missing
\* campaign id, never one caused by an empty frame
C10_EmptyResult ==
    /\ status = "ValueError" => AsTypeIntRaises(spend_file)
    /\ (Done /\ filtered_data = <<>>) =>
          output = [header |-> Headers, rows |-> <<>>]

C10_Witness ==
    /\ Done
    /\ spend_file.rows # <<>>
    /\ merged_data # <<>>
    /\ filtered_data = <<>>
    /\ output = [header |-> Headers, rows |-> <<>>]

====
